---- MODULE Spec2Model ----
(***************************************************************************)
(* Echo chat application (ragilhadi/echo): the message store               *)
(* (modules/db/db.py), the chat and message managers                       *)
(* (modules/frontend/managers) and the turn handler of the chatroom page   *)
(* (modules/frontend/components/chatroom_page.py).                         *)
(*                                                                         *)
(* Two browser sessions share one SQLite file.  Session 1 is on the        *)
(* chatroom page: it creates and enters rooms, changes the model and runs  *)
(* turns.  Session 2 is on the homepage: it deletes rooms.  Every session  *)
(* owns its own connection (session_manager.py:29-30), so a transaction    *)
(* opened by session 2 is invisible to session 1 until it commits.         *)
(*                                                                         *)
(* Text is a sequence of characters so that str.strip() is computed and    *)
(* not assumed.                                                            *)
(***************************************************************************)
EXTENDS Integers, Sequences, FiniteSets, TLC

\* ---------------------------------------------------------------- bounds
MaxChunks == 2   \* fragments one stream yields at most
MaxTurns == 1    \* accepted turns of session 1

\* ------------------------------------------------------------- constants
HUMAN == "human"
AI == "assistant"
SYSTEM == "system"

None == "None"
NoTxn == <<>>    \* the connection has no open transaction
Whitespace == {" "}
Models == {"m1", "m2"}
\* The ids uuid.uuid4() hands out (db.py:56); an id is never handed out twice.
RoomIds == {"r1"}
APIConnectionError == "APIConnectionError"
InvalidModelError == "InvalidModelError"
ApiErrors == {APIConnectionError, InvalidModelError}

\* Inputs: an empty text, a whitespace-only text and a text that strip() changes.
UserTexts == {<<>>, <<" ">>, <<" ", "a">>}
RoomNames == {<<" ">>, <<" ", "a">>}
Prompts == {<<" ">>, <<"a", " ">>}
\* What the remote model may send: the fragments of a stream (never empty,
\* openrouter.py:171) and the content of a non-streaming response.
Chunks == {<<" ">>, <<"a">>}
Replies == {<<" ">>, <<"a", " ">>}

\* ------------------------------------------------------------------ text
RECURSIVE LStrip(_)
LStrip(s) ==
    IF s = <<>> THEN <<>>
    ELSE IF Head(s) \in Whitespace THEN LStrip(Tail(s)) ELSE s

RECURSIVE RStrip(_)
RStrip(s) ==
    IF s = <<>> THEN <<>>
    ELSE IF s[Len(s)] \in Whitespace THEN RStrip(SubSeq(s, 1, Len(s) - 1)) ELSE s

\* A faulty strip that removes one whitespace character at most from each end.
Strip_once(s) ==
    LET a == IF s # <<>> /\ Head(s) \in Whitespace THEN Tail(s) ELSE s
    IN IF a # <<>> /\ a[Len(a)] \in Whitespace THEN SubSeq(a, 1, Len(a) - 1) ELSE a

\* str.strip()
Strip(s) == RStrip(LStrip(s))

\* "not content or not content.strip()"
IsBlank(s) == s = <<>> \/ Strip(s) = <<>>

\* ------------------------------------------------------------- variables
VARIABLES
    chat_rooms,      \* committed table chat_rooms: set of [room_id, room_name, created_at]
    messages,        \* committed table messages: rows in id order
    seq,             \* AUTOINCREMENT counter of messages.id
    usedIds,         \* room ids generated so far (uuid4 never repeats)
    clock,           \* last reading of the wall clock
    txn,             \* session 2's open transaction: <<>> or <<its working copy>>
    active_room,     \* st.session_state.active_room of session 1
    chat_model,      \* default_model of st.session_state.chat_model, or None
    room_model,      \* st.session_state["room_model_<id>"] of session 1
    history_token,   \* st.session_state.history_token of session 1
    pc,              \* position of session 1 in _process_user_input
    user_message,    \* argument of _process_user_input
    final_messages,  \* context built by _prepare_messages_for_ai
    accumulated,     \* text st.write_stream has drained so far
    full_response,   \* local full_response
    calls,           \* remote calls issued by the current turn (log)
    appended,        \* rows the current turn appended (log)
    outcome,         \* how the last submission ended
    turns,           \* accepted turns so far
    pc2,             \* position of session 2 in delete_chat_room
    del_room,        \* argument of session 2's delete_chat_room
    del_result,      \* last return value of session 2's delete_chat_room
    api_call,        \* last call of a ChatManager or MessageManager method made directly
    api_result       \* what that call returned or raised

dbVars == <<chat_rooms, messages, seq, usedIds, clock, txn>>
sessVars == <<active_room, chat_model, room_model>>
turnVars == <<pc, user_message, final_messages, accumulated, full_response,
              calls, appended, outcome, turns>>
delVars == <<pc2, del_room, del_result>>
apiVars == <<api_call, api_result>>
vars == <<dbVars, sessVars, history_token, turnVars, delVars, apiVars>>

\* -------------------------------------------------------- message store
\* One row of table messages (db.py:42-50).
Row(id, room_id, role, content, llm, timestamp) ==
    [id |-> id, room_id |-> room_id, role |-> role, content |-> content,
     llm |-> llm, timestamp |-> timestamp]

\* The tuple a SELECT of get_messages_by_room yields for a row.
Tuple4(r) ==
    [role |-> r.role, content |-> r.content, llm |-> r.llm, timestamp |-> r.timestamp]

RowsOf(msgs, room_id) == {msgs[i] : i \in {j \in 1..Len(msgs) : msgs[j].room_id = room_id}}

Min(S) == CHOOSE x \in S : \A y \in S : x <= y

\* Every sequence that lists the rows of S by ascending timestamp.  SQL leaves
\* the order of rows with equal ORDER BY keys undefined, and the query names no
\* second key, so rows with one timestamp come in any order.
RECURSIVE OrderByTimestamp(_)
OrderByTimestamp(S) ==
    IF S = {} THEN {<<>>}
    ELSE LET m == Min({r.timestamp : r \in S})
         IN UNION {{<<r>> \o t : t \in OrderByTimestamp(S \ {r})} :
                   r \in {x \in S : x.timestamp = m}}

\* get_messages_by_room: the results the SELECT may return.
get_messages_by_room(msgs, room_id) ==
    {[i \in 1..Len(o) |-> Tuple4(o[i])] : o \in OrderByTimestamp(RowsOf(msgs, room_id))}

\* count_messages_by_room
count_messages_by_room(msgs, room_id) == Cardinality(RowsOf(msgs, room_id))

\* fetchone() of the SELECT on chat_rooms is not None, on the committed table.
RoomExists(room_id) == \E r \in chat_rooms : r.room_id = room_id

\* get_chat_room: the row of room_id, or None.
get_chat_room(rooms, room_id) ==
    IF \E r \in rooms : r.room_id = room_id
    THEN CHOOSE r \in rooms : r.room_id = room_id
    ELSE None

\* A faulty cascade that spares the system prompt of the room.
DeleteMessagesWhere_sparing_system(msgs, room_id) ==
    SelectSeq(msgs, LAMBDA m : m.room_id # room_id \/ m.role = SYSTEM)

\* DELETE FROM messages WHERE room_id = ?
RECURSIVE DeleteMessagesWhere(_, _)
DeleteMessagesWhere(msgs, room_id) ==
    IF msgs = <<>> THEN <<>>
    ELSE IF Head(msgs).room_id = room_id
         THEN DeleteMessagesWhere(Tail(msgs), room_id)
         ELSE <<Head(msgs)>> \o DeleteMessagesWhere(Tail(msgs), room_id)

\* DELETE FROM chat_rooms WHERE room_id = ?
DeleteRoomWhere(rooms, room_id) == {r \in rooms : r.room_id # room_id}

\* datetime.utcnow(): the wall clock has a finite resolution, so two readings
\* in a row may be equal.  created_at (datetime.now(), local time) is never
\* compared with a message timestamp; it is recorded as the last reading.
ClockReadings == {clock, clock + 1}

\* add_message: INSERT and commit on the caller's connection.
add_message(room_id, role, content, llm, t) ==
    /\ messages' = Append(messages, Row(seq + 1, room_id, role, content, llm, t))
    /\ seq' = seq + 1
    /\ clock' = t

\* --------------------------------------------------------- MessageManager
\* A faulty mapping that lets a role it does not know through.
map_role_to_openai_passthrough(db_role) ==
    CASE db_role = HUMAN -> "user"
      [] db_role = AI -> "assistant"
      [] db_role = SYSTEM -> "system"
      [] OTHER -> db_role

\* _map_role_to_openai: role_mapping.get(db_role, "user")
map_role_to_openai(db_role) ==
    CASE db_role = HUMAN -> "user"
      [] db_role = AI -> "assistant"
      [] db_role = SYSTEM -> "system"
      [] OTHER -> "user"

Wire(role, content) == [role |-> role, content |-> content]

RECURSIVE db_messages_to_openai_format(_)
db_messages_to_openai_format(db_messages) ==
    IF db_messages = <<>> THEN <<>>
    ELSE LET m == Head(db_messages)
             rest == db_messages_to_openai_format(Tail(db_messages))
         IN IF IsBlank(m.content) THEN rest
            ELSE <<Wire(map_role_to_openai(m.role), Strip(m.content))>> \o rest

\* A faulty grouping that makes a pair of every message on its own.
GroupFrom_keeping_orphans(msgs, i) ==
    [j \in 1..(Len(msgs) - i + 1) |-> <<msgs[i + j - 1]>>]

\* _group_conversation_pairs, from index i on.
RECURSIVE GroupFrom(_, _)
GroupFrom(msgs, i) ==
    IF i > Len(msgs) THEN <<>>
    ELSE IF msgs[i].role = "user"
         THEN IF i + 1 <= Len(msgs) /\ msgs[i + 1].role = "assistant"
              THEN <<(<<msgs[i], msgs[i + 1]>>)>> \o GroupFrom(msgs, i + 2)
              ELSE <<(<<msgs[i]>>)>> \o GroupFrom(msgs, i + 1)
         ELSE GroupFrom(msgs, i + 1)

group_conversation_pairs(msgs) == GroupFrom(msgs, 1)

RECURSIVE Flatten(_)
Flatten(pairs) == IF pairs = <<>> THEN <<>> ELSE Head(pairs) \o Flatten(Tail(pairs))

\* Faulty slices: the oldest pairs instead of the latest, and all but the oldest.
LastN_oldest(s, n) == IF Len(s) > n THEN SubSeq(s, 1, n) ELSE s
LastN_dropping_one(s, n) == SubSeq(s, 2, Len(s))

\* pairs[-max_history:] for max_history >= 0; the slice [-0:] is the whole list.
LastN(s, n) == IF n > 0 /\ Len(s) > n THEN SubSeq(s, Len(s) - n + 1, Len(s)) ELSE s

\* A faulty trim that puts the conversation before the system messages.
trim_messages_conversation_first(msgs, max_history) ==
    LET IsSystem(m) == m.role = "system"
        NotSystem(m) == m.role # "system"
        conversation_pairs == group_conversation_pairs(SelectSeq(msgs, NotSystem))
    IN Flatten(LastN(conversation_pairs, max_history)) \o SelectSeq(msgs, IsSystem)

trim_messages(msgs, max_history) ==
    IF msgs = <<>> THEN <<>>
    ELSE LET IsSystem(m) == m.role = "system"
             NotSystem(m) == m.role # "system"
             system_messages == SelectSeq(msgs, IsSystem)
             conversation_messages == SelectSeq(msgs, NotSystem)
             conversation_pairs == group_conversation_pairs(conversation_messages)
             kept == IF Len(conversation_pairs) > max_history
                     THEN LastN(conversation_pairs, max_history)
                     ELSE conversation_pairs
         IN system_messages \o Flatten(kept)

\* Python values as they reach validate_message_format.  A mapping is a
\* record over its keys; an entry of another type is written [py_type |-> its
\* type].  A str is a sequence of characters; a content of another type is a
\* sequence holding a token that is no character.
Characters == {" ", "a", "b"}
isinstance_dict(message) == "py_type" \notin DOMAIN message
isinstance_str(x) == \A i \in 1..Len(x) : x[i] \in Characters

\* A faulty validation that accepts any role.
validate_message_format_any_role(m) ==
    /\ isinstance_dict(m)
    /\ {"role", "content"} \subseteq DOMAIN m
    /\ isinstance_str(m.content)

validate_message_format(m) ==
    /\ isinstance_dict(m)
    /\ {"role", "content"} \subseteq DOMAIN m
    /\ m.role \in {"system", "user", "assistant"}
    /\ isinstance_str(m.content)

RECURSIVE sanitize_messages(_)
sanitize_messages(msgs) ==
    IF msgs = <<>> THEN <<>>
    ELSE LET m == Head(msgs)
             rest == sanitize_messages(Tail(msgs))
         IN IF validate_message_format(m) /\ Strip(m.content) # <<>>
            THEN <<Wire(m.role, Strip(m.content))>> \o rest
            ELSE rest

\* The value _initialize_session_state gives st.session_state.history_token.
history_token_initial == 10

\* A faulty context builder that pushes the message in flight twice.
prepare_messages_pushing_twice(db_messages, text, max_history) ==
    LET in_flight == [role |-> HUMAN, content |-> text, llm |-> <<>>, timestamp |-> 0]
        current_messages == Append(Append(db_messages, in_flight), in_flight)
        openai_messages == db_messages_to_openai_format(current_messages)
        trimmed_messages == trim_messages(openai_messages, max_history)
    IN sanitize_messages(trimmed_messages)

\* The body of _prepare_messages_for_ai, given what get_room_messages returned
\* and the value of self.session_manager.history_token.
prepare_messages(db_messages, text, max_history) ==
    LET current_messages ==
            Append(db_messages,
                   [role |-> HUMAN, content |-> text, llm |-> <<>>, timestamp |-> 0])
        openai_messages == db_messages_to_openai_format(current_messages)
        trimmed_messages == trim_messages(openai_messages, max_history)
    IN sanitize_messages(trimmed_messages)

\* _prepare_messages_for_ai in the session as it is.
prepare_messages_for_ai(db_messages, text) ==
    prepare_messages(db_messages, text, history_token)

\* ------------------------------------------------------ remote client
default_temperature == 7    \* 0.7, in tenths (openrouter.py:38)

\* The Python values an optional argument may hold: None, a str, a float (a
\* temperature is written in tenths).
PyNone == [py_type |-> "NoneType"]
PyStr(s) == [py_type |-> "str", value |-> s]
PyFloat(x) == [py_type |-> "float", value |-> x]

\* Python truthiness of an optional argument: None, "" and 0 are falsy.
Falsy(x) ==
    \/ x.py_type = "NoneType"
    \/ (x.py_type = "str" /\ x.value = "")
    \/ (x.py_type = "float" /\ x.value = 0)

\* BaseChatClient._resolve_parameters
resolve_parameters(model, temperature, default_model) ==
    [model |-> IF Falsy(model) THEN default_model ELSE model.value,
     temperature |-> IF Falsy(temperature) THEN default_temperature
                     ELSE temperature.value]

\* str.lower() on one word of an error text.
Lower(w) ==
    CASE w = "Model" -> "model"
      [] w = "Not" -> "not"
      [] OTHER -> w

\* OpenRouterClient._handle_api_error: the kind of exception it raises for an
\* error of the request.  The text of the error is a sequence of words;
\* "model" in error_message or "not found" in error_message.
handle_api_error(error) ==
    LET error_message == [i \in 1..Len(error.text) |-> Lower(error.text[i])]
    IN IF \/ \E i \in 1..Len(error_message) : error_message[i] = "model"
          \/ \E i \in 1..(Len(error_message) - 1) :
                 error_message[i] = "not" /\ error_message[i + 1] = "found"
       THEN InvalidModelError
       ELSE APIConnectionError

\* OpenRouterClient.chat and stream_chat drained to its end: the request that
\* is sent, and what the caller gets.  service is what the remote service does
\* with the request: it answers (cause None) or the request raises.
chat(model, temperature, default_model, service) ==
    LET resolved == resolve_parameters(model, temperature, default_model)
    IN IF service.cause = None
       THEN [raised |-> None, value |-> <<"a">>, request |-> resolved]
       ELSE [raised |-> handle_api_error(service), value |-> None,
             request |-> resolved]

\* The except clauses of ChatManager.get_ai_response and stream_ai_response.
reraise(e) ==
    CASE e = APIConnectionError -> APIConnectionError
      [] e = InvalidModelError -> InvalidModelError
      [] OTHER -> APIConnectionError

\* One remote request as the client issues it.
Call(kind, msgs, default_model) ==
    LET r == resolve_parameters(PyNone, PyNone, default_model)
    IN [kind |-> kind, messages |-> msgs, model |-> r.model,
        temperature |-> r.temperature, status |-> "open", text |-> <<>>,
        error |-> None]

\* OpenRouterClient.get_available_models()[0]
first_available_model == "m1"

\* ------------------------------------------------------------ session 1

\* _initialize_room_model; ok tells whether OpenRouterClient(...) (and the
\* model list request) succeeded.
initialize_room_model(cm, rm, room, ok) ==
    IF rm[room] # None
    THEN IF (cm = None \/ cm # rm[room]) /\ ok
         THEN [chat_model |-> rm[room], room_model |-> rm]
         ELSE [chat_model |-> cm, room_model |-> rm]
    ELSE IF ok
         THEN [chat_model |-> first_available_model,
               room_model |-> [rm EXCEPT ![room] = first_available_model]]
         ELSE [chat_model |-> cm, room_model |-> rm]

InitProgram ==
    /\ chat_rooms = {}
    /\ messages = <<>>
    /\ seq = 0
    /\ usedIds = {}
    /\ clock = 0
    /\ txn = NoTxn
    /\ active_room = None
    /\ chat_model = None
    /\ room_model = [r \in RoomIds |-> None]
    /\ history_token = history_token_initial
    /\ pc = "Idle"
    /\ user_message = <<>>
    /\ final_messages = <<>>
    /\ accumulated = <<>>
    /\ full_response = <<>>
    /\ calls = <<>>
    /\ appended = <<>>
    /\ outcome = "none"
    /\ turns = 0
    /\ pc2 = "idle"
    /\ del_room = None
    /\ del_result = None

\* No method has been called directly yet.
Init ==
    /\ InitProgram
    /\ api_call = [op |-> None]
    /\ api_result = [raised |-> None, value |-> None]

\* A handler of session 1 other than the chat input runs in a fresh script run:
\* the notice the last run left on the page is gone.
NewRun ==
    /\ outcome' = "none"
    /\ user_message' = <<>>
    /\ UNCHANGED <<pc, final_messages, accumulated, full_response, calls,
                   appended, turns>>

\* ChatManager.create_chat_room, called by HomepageComponent._handle_room_creation
\* of session 1.
create_chat_room(room_name, model_name, system_prompt) ==
    /\ pc = "Idle"
    /\ active_room = None
    /\ txn = NoTxn
    /\ usedIds # RoomIds
    /\ IF IsBlank(room_name)
       THEN UNCHANGED <<dbVars, sessVars>>
       ELSE LET room_id == CHOOSE r \in RoomIds \ usedIds : TRUE
            IN  /\ chat_rooms' = chat_rooms \cup
                       {[room_id |-> room_id, room_name |-> Strip(room_name),
                         created_at |-> clock]}
                /\ usedIds' = usedIds \cup {room_id}
                /\ IF IsBlank(system_prompt)
                   THEN UNCHANGED <<messages, seq, clock>>
                   ELSE \E t \in ClockReadings :
                            add_message(room_id, SYSTEM, Strip(system_prompt), SYSTEM, t)
                /\ room_model' = [room_model EXCEPT ![room_id] = model_name]
                /\ UNCHANGED <<txn, active_room, chat_model>>
    /\ NewRun
    /\ UNCHANGED delVars
    /\ UNCHANGED <<history_token, apiVars>>

\* HomepageComponent._enter_chatroom, then the rerun's render().
enter_chatroom(room_id, ok) ==
    /\ pc = "Idle"
    /\ active_room = None
    /\ RoomExists(room_id)
    /\ active_room' = room_id
    /\ LET im == initialize_room_model(chat_model, room_model, room_id, ok)
       IN /\ chat_model' = im.chat_model
          /\ room_model' = im.room_model
    /\ NewRun
    /\ UNCHANGED <<dbVars, delVars>>
    /\ UNCHANGED <<history_token, apiVars>>

\* ChatroomPageComponent._go_to_homepage
go_to_homepage ==
    /\ pc = "Idle"
    /\ active_room # None
    /\ active_room' = None
    /\ NewRun
    /\ UNCHANGED <<dbVars, chat_model, room_model, delVars>>
    /\ UNCHANGED <<history_token, apiVars>>

\* ChatroomPageComponent._change_room_model; ok tells whether a client for
\* new_model could be created (at once or by the _initialize_room_model retry).
change_room_model(new_model, ok) ==
    /\ pc = "Idle"
    /\ active_room # None
    /\ RoomExists(active_room)
    /\ new_model # room_model[active_room]
    /\ room_model' = [room_model EXCEPT ![active_room] = new_model]
    /\ chat_model' = IF ok THEN new_model ELSE chat_model
    /\ NewRun
    /\ UNCHANGED <<dbVars, active_room, delVars>>
    /\ UNCHANGED <<history_token, apiVars>>

\* ----------------------------------------------------------- the turn
\* ChatManager.get_room_messages: what the read may return; the handler turns
\* a failed read into an empty list.
get_room_messages(room_id) == get_messages_by_room(messages, room_id) \cup {<<>>}

\* The calls log with its last entry closed.
CloseCall(status, text, error) ==
    [calls EXCEPT ![Len(calls)] =
        [@ EXCEPT !.status = status, !.text = text, !.error = error]]

\* A faulty handler that does not look at has_chat_model().
process_user_input_without_model_check(text, ok) ==
    /\ pc = "Idle"
    /\ active_room # None
    /\ RoomExists(active_room)
    /\ turns < MaxTurns
    /\ UNCHANGED <<chat_model, room_model>>
    /\ IF IsBlank(text)
       THEN /\ outcome' = "InvalidArgument"
            /\ user_message' = text
            /\ UNCHANGED <<pc, final_messages, accumulated, full_response,
                           calls, appended, turns>>
       ELSE /\ user_message' = text
            /\ final_messages' = <<>>
            /\ accumulated' = <<>>
            /\ full_response' = <<>>
            /\ calls' = <<>>
            /\ appended' = <<>>
            /\ outcome' = "running"
            /\ turns' = turns + 1
            /\ pc' = "ContextBuilt"
    /\ UNCHANGED <<dbVars, active_room, delVars>>
    /\ UNCHANGED <<history_token, apiVars>>

\* _process_user_input up to and including _prepare_messages_for_ai, run by the
\* script after render() has called _initialize_room_model.
process_user_input(text, ok) ==
    /\ pc = "Idle"
    /\ active_room # None
    /\ RoomExists(active_room)
    /\ turns < MaxTurns
    /\ LET im == initialize_room_model(chat_model, room_model, active_room, ok)
       IN /\ chat_model' = im.chat_model
          /\ room_model' = im.room_model
          /\ IF IsBlank(text)
             THEN /\ outcome' = "InvalidArgument"
                  /\ user_message' = text
                  /\ UNCHANGED <<pc, final_messages, accumulated, full_response,
                                 calls, appended, turns>>
             ELSE IF im.chat_model = None
             THEN /\ outcome' = "PreconditionFailed"
                  /\ user_message' = text
                  /\ UNCHANGED <<pc, final_messages, accumulated, full_response,
                                 calls, appended, turns>>
             ELSE \E db_messages \in get_room_messages(active_room) :
                  /\ user_message' = text
                  /\ final_messages' = prepare_messages_for_ai(db_messages, text)
                  /\ accumulated' = <<>>
                  /\ full_response' = <<>>
                  /\ calls' = <<>>
                  /\ appended' = <<>>
                  /\ outcome' = "running"
                  /\ turns' = turns + 1
                  /\ pc' = "ContextBuilt"
    /\ UNCHANGED <<dbVars, active_room, delVars>>
    /\ UNCHANGED <<history_token, apiVars>>

\* stream_chat: the streaming request is issued (chatroom_page.py:356-359).
stream_chat_request ==
    /\ pc = "ContextBuilt"
    /\ calls' = Append(calls, Call("stream", final_messages, chat_model))
    /\ pc' = "ModelInvoked"
    /\ UNCHANGED <<dbVars, sessVars, user_message, final_messages, accumulated,
                   full_response, appended, outcome, turns, delVars>>
    /\ UNCHANGED <<history_token, apiVars>>

\* stream_chat yields one non-empty fragment and st.write_stream accumulates it.
stream_chunk(content) ==
    /\ pc = "ModelInvoked"
    /\ Len(accumulated) < MaxChunks
    /\ accumulated' = accumulated \o content
    /\ UNCHANGED <<dbVars, sessVars, pc, user_message, final_messages,
                   full_response, calls, appended, outcome, turns, delVars>>
    /\ UNCHANGED <<history_token, apiVars>>

\* The stream ends; st.write_stream returns the whole text.
stream_complete ==
    /\ pc = "ModelInvoked"
    /\ full_response' = accumulated
    /\ calls' = CloseCall("completed", accumulated, None)
    /\ pc' = "SaveUser"
    /\ UNCHANGED <<dbVars, sessVars, user_message, final_messages, accumulated,
                   appended, outcome, turns, delVars>>
    /\ UNCHANGED <<history_token, apiVars>>

\* A faulty handler that keeps what a broken stream had delivered.
stream_fault_keeping_partial(error) ==
    /\ pc = "ModelInvoked"
    /\ calls' = CloseCall("failed", accumulated, error)
    /\ full_response' = accumulated
    /\ pc' = "SaveUser"
    /\ UNCHANGED <<dbVars, sessVars, user_message, final_messages, accumulated,
                   appended, outcome, turns, delVars>>
    /\ UNCHANGED <<history_token, apiVars>>

\* The streaming request raises, before the first fragment or between two
\* fragments; the handler's inner except goes on to the fallback.
stream_fault(error) ==
    /\ pc = "ModelInvoked"
    /\ calls' = CloseCall("failed", accumulated, error)
    /\ pc' = "Fallback"
    /\ UNCHANGED <<dbVars, sessVars, user_message, final_messages, accumulated,
                   full_response, appended, outcome, turns, delVars>>
    /\ UNCHANGED <<history_token, apiVars>>

\* The script run is stopped while st.write_stream drains the stream (a rerun
\* or stop request raises a BaseException at the next st call, which neither
\* except clause catches).
stream_cancel ==
    /\ pc = "ModelInvoked"
    /\ calls' = CloseCall("cancelled", accumulated, None)
    /\ outcome' = "cancelled"
    /\ pc' = "Failed"
    /\ UNCHANGED <<dbVars, sessVars, user_message, final_messages, accumulated,
                   full_response, appended, turns, delVars>>
    /\ UNCHANGED <<history_token, apiVars>>

\* Fallback: chat(final_messages) returns (chatroom_page.py:372-378).
fallback_return(content) ==
    /\ pc = "Fallback"
    /\ calls' = Append(calls, [Call("chat", final_messages, chat_model)
                               EXCEPT !.status = "completed", !.text = content])
    /\ full_response' = content
    /\ pc' = "SaveUser"
    /\ UNCHANGED <<dbVars, sessVars, user_message, final_messages, accumulated,
                   appended, outcome, turns, delVars>>
    /\ UNCHANGED <<history_token, apiVars>>

\* A faulty handler that tries the non-streaming call again after it raised.
fallback_raise_retrying(error) ==
    /\ pc = "Fallback"
    /\ calls' = Append(calls, [Call("chat", final_messages, chat_model)
                               EXCEPT !.status = "failed", !.error = error])
    /\ UNCHANGED <<dbVars, sessVars, pc, user_message, final_messages, accumulated,
                   full_response, appended, outcome, turns, delVars>>
    /\ UNCHANGED <<history_token, apiVars>>

\* Fallback: chat(final_messages) raises; the outer except reports the error.
fallback_raise(error) ==
    /\ pc = "Fallback"
    /\ calls' = Append(calls, [Call("chat", final_messages, chat_model)
                               EXCEPT !.status = "failed", !.error = error])
    /\ outcome' = "failed"
    /\ pc' = "Failed"
    /\ UNCHANGED <<dbVars, sessVars, user_message, final_messages, accumulated,
                   full_response, appended, turns, delVars>>
    /\ UNCHANGED <<history_token, apiVars>>

\* A faulty add_user_message that stores the text as typed.
add_user_message_unstripped(room_id, content, t) ==
    /\ add_message(room_id, HUMAN, content, HUMAN, t)
    /\ appended' = Append(appended, Row(seq + 1, room_id, HUMAN, content, HUMAN, t))

\* ChatManager.add_user_message (the ValueError branch is the caller's).
add_user_message(room_id, content, t) ==
    /\ add_message(room_id, HUMAN, Strip(content), HUMAN, t)
    /\ appended' = Append(appended, Row(seq + 1, room_id, HUMAN, Strip(content), HUMAN, t))

\* ChatManager.add_ai_message (the ValueError branch is the caller's).
add_ai_message(room_id, content, model_name, t) ==
    /\ add_message(room_id, AI, Strip(content), model_name, t)
    /\ appended' = Append(appended, Row(seq + 1, room_id, AI, Strip(content), model_name, t))

\* chatroom_page.py:381-383; the write waits while another connection holds
\* the write lock.
save_user_message ==
    /\ pc = "SaveUser"
    /\ txn = NoTxn
    /\ IF IsBlank(user_message)
       THEN /\ outcome' = "failed"
            /\ pc' = "Failed"
            /\ UNCHANGED <<messages, seq, clock, appended>>
       ELSE /\ \E t \in ClockReadings : add_user_message(active_room, user_message, t)
            /\ pc' = "SaveAI"
            /\ UNCHANGED outcome
    /\ UNCHANGED <<chat_rooms, usedIds, txn, sessVars, user_message, final_messages,
                   accumulated, full_response, calls, turns, delVars>>
    /\ UNCHANGED <<history_token, apiVars>>

\* A faulty handler that tags the answer with the model stored for the room.
save_ai_message_room_tag ==
    /\ pc = "SaveAI"
    /\ txn = NoTxn
    /\ IF IsBlank(full_response)
       THEN /\ outcome' = "failed"
            /\ pc' = "Failed"
            /\ UNCHANGED <<messages, seq, clock, appended>>
       ELSE /\ \E t \in ClockReadings :
                   add_ai_message(active_room, full_response, room_model[active_room], t)
            /\ outcome' = "persisted"
            /\ pc' = "AssistantMessagePersisted"
    /\ UNCHANGED <<chat_rooms, usedIds, txn, sessVars, user_message, final_messages,
                   accumulated, full_response, calls, turns, delVars>>
    /\ UNCHANGED <<history_token, apiVars>>

\* A faulty handler that never leaves the save of a blank answer.
save_ai_message_stuck_on_blank ==
    /\ pc = "SaveAI"
    /\ txn = NoTxn
    /\ ~IsBlank(full_response)
    /\ \E t \in ClockReadings :
           add_ai_message(active_room, full_response, chat_model, t)
    /\ outcome' = "persisted"
    /\ pc' = "AssistantMessagePersisted"
    /\ UNCHANGED <<chat_rooms, usedIds, txn, sessVars, user_message, final_messages,
                   accumulated, full_response, calls, turns, delVars>>
    /\ UNCHANGED <<history_token, apiVars>>

\* A faulty handler that stores the answer whatever it holds.
save_ai_message_storing_blank ==
    /\ pc = "SaveAI"
    /\ txn = NoTxn
    /\ \E t \in ClockReadings :
           add_ai_message(active_room, full_response, chat_model, t)
    /\ outcome' = "persisted"
    /\ pc' = "AssistantMessagePersisted"
    /\ UNCHANGED <<chat_rooms, usedIds, txn, sessVars, user_message, final_messages,
                   accumulated, full_response, calls, turns, delVars>>
    /\ UNCHANGED <<history_token, apiVars>>

\* chatroom_page.py:384-391
save_ai_message ==
    /\ pc = "SaveAI"
    /\ txn = NoTxn
    /\ IF IsBlank(full_response)
       THEN /\ outcome' = "failed"
            /\ pc' = "Failed"
            /\ UNCHANGED <<messages, seq, clock, appended>>
       ELSE /\ \E t \in ClockReadings :
                   add_ai_message(active_room, full_response, chat_model, t)
            /\ outcome' = "persisted"
            /\ pc' = "AssistantMessagePersisted"
    /\ UNCHANGED <<chat_rooms, usedIds, txn, sessVars, user_message, final_messages,
                   accumulated, full_response, calls, turns, delVars>>
    /\ UNCHANGED <<history_token, apiVars>>

\* The script run is over (st.rerun() after a success, the error notice
\* otherwise); the page waits for the next input.
rerun ==
    /\ pc \in {"AssistantMessagePersisted", "Failed"}
    /\ pc' = "Idle"
    /\ user_message' = <<>>
    /\ final_messages' = <<>>
    /\ accumulated' = <<>>
    /\ full_response' = <<>>
    /\ calls' = <<>>
    /\ appended' = <<>>
    /\ outcome' = "none"
    /\ UNCHANGED <<dbVars, sessVars, turns, delVars>>
    /\ UNCHANGED <<history_token, apiVars>>

\* ------------------------------------------------------------ session 2
\* ChatDatabase.delete_chat_room, statement by statement: the SELECT
\* (db.py:119-126).
delete_select(room_id) ==
    /\ pc2 = "idle"
    /\ IF ~RoomExists(room_id)
       THEN /\ del_result' = "False"
            /\ del_room' = room_id
            /\ pc2' = "idle"
       ELSE /\ del_result' = None
            /\ del_room' = room_id
            /\ pc2' = "delete_messages"
    /\ UNCHANGED <<dbVars, sessVars, turnVars>>
    /\ UNCHANGED <<history_token, apiVars>>

\* A faulty deletion on a connection in autocommit mode: the first DELETE is
\* visible to every reader at once.
delete_messages_autocommit ==
    /\ pc2 = "delete_messages"
    /\ messages' = DeleteMessagesWhere(messages, del_room)
    /\ txn' = <<[chat_rooms |-> chat_rooms,
                messages |-> DeleteMessagesWhere(messages, del_room)]>>
    /\ pc2' = "delete_room"
    /\ UNCHANGED <<chat_rooms, seq, usedIds, clock, sessVars, turnVars,
                   del_room, del_result>>
    /\ UNCHANGED <<history_token, apiVars>>

\* DELETE FROM messages (db.py:129-134): opens the connection's transaction.
delete_messages ==
    /\ pc2 = "delete_messages"
    /\ txn' = <<[chat_rooms |-> chat_rooms,
                messages |-> DeleteMessagesWhere(messages, del_room)]>>
    /\ pc2' = "delete_room"
    /\ UNCHANGED <<chat_rooms, messages, seq, usedIds, clock, sessVars, turnVars,
                   del_room, del_result>>
    /\ UNCHANGED <<history_token, apiVars>>

\* DELETE FROM chat_rooms (db.py:137-142), in the same transaction.
delete_room_row ==
    /\ pc2 = "delete_room"
    /\ txn' = <<[txn[1] EXCEPT !.chat_rooms = DeleteRoomWhere(txn[1].chat_rooms, del_room)]>>
    /\ pc2' = "commit"
    /\ UNCHANGED <<chat_rooms, messages, seq, usedIds, clock, sessVars, turnVars,
                   del_room, del_result>>
    /\ UNCHANGED <<history_token, apiVars>>

\* self.conn.commit(); return True (db.py:144-145).
delete_commit ==
    /\ pc2 = "commit"
    /\ chat_rooms' = txn[1].chat_rooms
    /\ messages' = txn[1].messages
    /\ txn' = NoTxn
    /\ del_result' = "True"
    /\ pc2' = "idle"
    /\ UNCHANGED <<seq, usedIds, clock, sessVars, turnVars, del_room>>
    /\ UNCHANGED <<history_token, apiVars>>

\* ------------------------------------------------------------------ spec
TurnStep ==
    \/ stream_chat_request
    \/ \E c \in Chunks : stream_chunk(c)
    \/ stream_complete
    \/ \E e \in ApiErrors : stream_fault(e)
    \/ \E content \in Replies : fallback_return(content)
    \/ \E e \in ApiErrors : fallback_raise(e)
    \/ save_user_message
    \/ save_ai_message
    \/ rerun

DeleteStep ==
    \/ delete_messages
    \/ delete_room_row
    \/ delete_commit

Next ==
    \/ \E n \in RoomNames, m \in Models, p \in Prompts : create_chat_room(n, m, p)
    \/ \E r \in RoomIds, ok \in BOOLEAN : enter_chatroom(r, ok)
    \/ go_to_homepage
    \/ \E m \in Models, ok \in BOOLEAN : change_room_model(m, ok)
    \/ \E text \in UserTexts, ok \in BOOLEAN : process_user_input(text, ok)
    \/ stream_cancel
    \/ TurnStep
    \/ \E r \in RoomIds : delete_select(r)
    \/ DeleteStep

Spec == Init /\ [][Next]_vars

\* Every script thread keeps running, and every remote call returns or raises.
LiveSpec == Spec /\ WF_vars(TurnStep) /\ WF_vars(DeleteStep)

TypeOK ==
    /\ seq \in Nat
    /\ pc \in {"Idle", "ContextBuilt", "ModelInvoked", "Fallback", "SaveUser",
               "SaveAI", "AssistantMessagePersisted", "Failed"}
    /\ pc2 \in {"idle", "delete_messages", "delete_room", "commit"}
    /\ Len(messages) <= seq

\* ------------------------------------------- the managers called directly
\* One connection; a caller invokes the ChatManager methods one after another.
MaxMessages == 2    \* rows inserted into messages

\* uuid4 strings of the rooms, and the room_id arguments a caller may pass to
\* a deletion or a clear; messages are added under ids create_chat_room returned.
StoreRoomIds == {<<"a">>, <<"b">>}
RoomIdArgs == StoreRoomIds \cup {<<>>, <<" ">>, <<"a", " ">>}
Contents == {<<" ">>, <<" ", "a">>}
ValueError == "ValueError"

Returned(v) == [raised |-> None, value |-> v]
Raised(e) == [raised |-> e, value |-> None]

\* A faulty DELETE without the role condition.
ClearChatHistoryWhere_any_role(msgs, room_id) ==
    SelectSeq(msgs, LAMBDA m : m.room_id # room_id)

\* DELETE FROM messages WHERE room_id = ? AND role IN ('human', 'assistant')
ClearChatHistoryWhere(msgs, room_id) ==
    SelectSeq(msgs, LAMBDA m : ~(m.room_id = room_id /\ m.role \in {"human", "assistant"}))

\* Session and page state play no part in a direct call.
StoreFrame == UNCHANGED <<txn, sessVars, history_token, turnVars, delVars>>

\* A faulty create_chat_room that stores the prompt as given.
ChatManager_create_chat_room_raw_prompt(room_name, system_prompt) ==
    /\ api_call' = [op |-> "create_chat_room", room_name |-> room_name,
                    system_prompt |-> system_prompt]
    /\ ~IsBlank(room_name)
    /\ usedIds # StoreRoomIds
    /\ seq < MaxMessages
    /\ LET room_id == CHOOSE r \in StoreRoomIds \ usedIds : TRUE
       IN /\ chat_rooms' = chat_rooms \cup
                 {[room_id |-> room_id, room_name |-> Strip(room_name),
                   created_at |-> clock]}
          /\ usedIds' = usedIds \cup {room_id}
          /\ \E t \in ClockReadings :
                add_message(room_id, SYSTEM, system_prompt, SYSTEM, t)
          /\ api_result' = Returned(room_id)
    /\ StoreFrame

\* ChatManager.create_chat_room
ChatManager_create_chat_room(room_name, system_prompt) ==
    /\ api_call' = [op |-> "create_chat_room", room_name |-> room_name,
                    system_prompt |-> system_prompt]
    /\ IF IsBlank(room_name)
       THEN /\ api_result' = Raised(ValueError)
            /\ UNCHANGED <<chat_rooms, messages, seq, usedIds, clock>>
       ELSE /\ usedIds # StoreRoomIds
            /\ LET room_id == CHOOSE r \in StoreRoomIds \ usedIds : TRUE
               IN /\ chat_rooms' = chat_rooms \cup
                         {[room_id |-> room_id, room_name |-> Strip(room_name),
                           created_at |-> clock]}
                  /\ usedIds' = usedIds \cup {room_id}
                  /\ IF IsBlank(system_prompt)
                     THEN UNCHANGED <<messages, seq, clock>>
                     ELSE /\ seq < MaxMessages
                          /\ \E t \in ClockReadings :
                                add_message(room_id, SYSTEM, Strip(system_prompt), SYSTEM, t)
                  /\ api_result' = Returned(room_id)
    /\ StoreFrame

\* ChatManager.add_user_message
ChatManager_add_user_message(room_id, content) ==
    /\ api_call' = [op |-> "add_user_message", room_id |-> room_id, content |-> content]
    /\ IF IsBlank(content)
       THEN /\ api_result' = Raised(ValueError)
            /\ UNCHANGED <<messages, seq, clock>>
       ELSE /\ seq < MaxMessages
            /\ \E t \in ClockReadings : add_message(room_id, HUMAN, Strip(content), HUMAN, t)
            /\ api_result' = Returned(None)
    /\ UNCHANGED <<chat_rooms, usedIds>>
    /\ StoreFrame

\* A faulty add_ai_message without the check of content.
ChatManager_add_ai_message_unchecked(room_id, content, model_name) ==
    /\ api_call' = [op |-> "add_ai_message", room_id |-> room_id, content |-> content]
    /\ seq < MaxMessages
    /\ \E t \in ClockReadings : add_message(room_id, AI, Strip(content), model_name, t)
    /\ api_result' = Returned(None)
    /\ UNCHANGED <<chat_rooms, usedIds>>
    /\ StoreFrame

\* ChatManager.add_ai_message
ChatManager_add_ai_message(room_id, content, model_name) ==
    /\ api_call' = [op |-> "add_ai_message", room_id |-> room_id, content |-> content]
    /\ IF IsBlank(content)
       THEN /\ api_result' = Raised(ValueError)
            /\ UNCHANGED <<messages, seq, clock>>
       ELSE /\ seq < MaxMessages
            /\ \E t \in ClockReadings : add_message(room_id, AI, Strip(content), model_name, t)
            /\ api_result' = Returned(None)
    /\ UNCHANGED <<chat_rooms, usedIds>>
    /\ StoreFrame

\* A faulty delete_chat_room that runs its DELETEs without the SELECT.
ChatManager_delete_chat_room_unchecked(room_id) ==
    /\ api_call' = [op |-> "delete_chat_room", room_id |-> room_id]
    /\ ~IsBlank(room_id)
    /\ messages' = DeleteMessagesWhere(messages, Strip(room_id))
    /\ chat_rooms' = DeleteRoomWhere(chat_rooms, Strip(room_id))
    /\ api_result' = Returned(TRUE)
    /\ UNCHANGED <<seq, usedIds, clock>>
    /\ StoreFrame

\* ChatManager.delete_chat_room over ChatDatabase.delete_chat_room
ChatManager_delete_chat_room(room_id) ==
    /\ api_call' = [op |-> "delete_chat_room", room_id |-> room_id]
    /\ IF IsBlank(room_id)
       THEN /\ api_result' = Raised(ValueError)
            /\ UNCHANGED <<chat_rooms, messages>>
       ELSE IF ~RoomExists(Strip(room_id))
       THEN /\ api_result' = Returned(FALSE)
            /\ UNCHANGED <<chat_rooms, messages>>
       ELSE /\ messages' = DeleteMessagesWhere(messages, Strip(room_id))
            /\ chat_rooms' = DeleteRoomWhere(chat_rooms, Strip(room_id))
            /\ api_result' = Returned(TRUE)
    /\ UNCHANGED <<seq, usedIds, clock>>
    /\ StoreFrame

\* ChatManager.clear_room_messages over ChatDatabase.delete_messages_by_room
ChatManager_clear_room_messages(room_id) ==
    /\ api_call' = [op |-> "clear_room_messages", room_id |-> room_id]
    /\ IF IsBlank(room_id)
       THEN /\ api_result' = Raised(ValueError)
            /\ UNCHANGED messages
       ELSE /\ messages' = DeleteMessagesWhere(messages, Strip(room_id))
            /\ api_result' = Returned(count_messages_by_room(messages, Strip(room_id)))
    /\ UNCHANGED <<chat_rooms, seq, usedIds, clock>>
    /\ StoreFrame

\* ChatManager.clear_room_chat_history over ChatDatabase.clear_room_chat_history
ChatManager_clear_room_chat_history(room_id) ==
    /\ api_call' = [op |-> "clear_room_chat_history", room_id |-> room_id]
    /\ IF IsBlank(room_id)
       THEN /\ api_result' = Raised(ValueError)
            /\ UNCHANGED messages
       ELSE /\ messages' = ClearChatHistoryWhere(messages, Strip(room_id))
            /\ api_result' = Returned(Len(messages)
                                      - Len(ClearChatHistoryWhere(messages, Strip(room_id))))
    /\ UNCHANGED <<chat_rooms, seq, usedIds, clock>>
    /\ StoreFrame

NextStore ==
    \/ \E n \in RoomNames, p \in Prompts : ChatManager_create_chat_room(n, p)
    \/ \E r \in usedIds, c \in Contents : ChatManager_add_user_message(r, c)
    \/ \E r \in usedIds, c \in Contents :
          ChatManager_add_ai_message(r, c, first_available_model)
    \/ \E r \in RoomIdArgs : ChatManager_delete_chat_room(r)
    \/ \E r \in RoomIdArgs : ChatManager_clear_room_messages(r)
    \/ \E r \in RoomIdArgs : ChatManager_clear_room_chat_history(r)

StoreSpec == Init /\ [][NextStore]_vars

\* ------------------------------------ the MessageManager called directly
MaxWire == 4      \* length of a message list passed in
MaxBudget == 2    \* largest max_history passed in
MaxStored == 3    \* length of a list of stored messages passed in

\* Wire messages as db_messages_to_openai_format produces them.
WireEntries ==
    {Wire("system", <<"a">>), Wire("system", <<"b">>), Wire("user", <<"a">>),
     Wire("user", <<"b">>), Wire("assistant", <<"a">>), Wire("assistant", <<"b">>)}

\* What a caller may hand to sanitize_messages: wire messages, contents with
\* surrounding, only or no characters, an extra key, a missing key, a role
\* outside the valid ones, a content that is no str, an entry that is no dict.
SanitizeEntries ==
    {Wire("user", <<"a">>),
     Wire("assistant", <<" ", "a", " ">>),
     [role |-> "system", content |-> <<" ", " ", "a">>, name |-> "n"],
     Wire("system", <<" ">>),
     Wire("user", <<>>),
     Wire("tool", <<"a">>),
     Wire("user", <<"int">>),
     [role |-> "user"],
     [content |-> <<"a">>],
     [py_type |-> "str"]}

\* Tuples (role, content, llm_model, timestamp) as get_room_messages returns
\* them, and as a caller may build them: a role outside the three stored ones,
\* a content that is empty, only whitespace, or padded.
StoredEntries ==
    {[role |-> r, content |-> c, llm |-> <<>>, timestamp |-> 0] :
         r \in {HUMAN, AI, SYSTEM, "tool"},
         c \in {<<>>, <<" ">>, <<"a">>, <<" ", "b", " ">>}}

SeqsUpTo(S, n) == UNION {[1..k -> S] : k \in 0..n}

MessageFrame == UNCHANGED <<dbVars, sessVars, history_token, turnVars, delVars>>

\* The calls a caller may make of one method, and the result of a call not
\* yet returned.
MessageOps == {"trim_messages", "sanitize_messages", "db_messages_to_openai_format"}
MessageCalls(op) ==
    CASE op = "trim_messages" ->
             {[op |-> op, messages |-> msgs, max_history |-> k] :
                  msgs \in SeqsUpTo(WireEntries, MaxWire), k \in 1..MaxBudget}
      [] op = "sanitize_messages" ->
             {[op |-> op, messages |-> msgs] :
                  msgs \in SeqsUpTo(SanitizeEntries, MaxWire)}
      [] op = "db_messages_to_openai_format" ->
             {[op |-> op, db_messages |-> msgs] :
                  msgs \in SeqsUpTo(StoredEntries, MaxStored)}
Pending == [raised |-> None, value |-> None, pending |-> TRUE]

\* A caller is about to call one method of the MessageManager.
InitMessages ==
    /\ InitProgram
    /\ \E op \in MessageOps : api_call \in MessageCalls(op)
    /\ api_result = Pending

\* MessageManager.trim_messages
MessageManager_trim_messages ==
    /\ api_call.op = "trim_messages"
    /\ api_result = Pending
    /\ api_result' = Returned(trim_messages(api_call.messages, api_call.max_history))
    /\ UNCHANGED api_call
    /\ MessageFrame

\* MessageManager.sanitize_messages
MessageManager_sanitize_messages ==
    /\ api_call.op = "sanitize_messages"
    /\ api_result = Pending
    /\ api_result' = Returned(sanitize_messages(api_call.messages))
    /\ UNCHANGED api_call
    /\ MessageFrame

\* MessageManager.db_messages_to_openai_format
MessageManager_db_messages_to_openai_format ==
    /\ api_call.op = "db_messages_to_openai_format"
    /\ api_result = Pending
    /\ api_result' = Returned(db_messages_to_openai_format(api_call.db_messages))
    /\ UNCHANGED api_call
    /\ MessageFrame

NextMessages ==
    \/ MessageManager_trim_messages
    \/ MessageManager_sanitize_messages
    \/ MessageManager_db_messages_to_openai_format

MessageSpec == InitMessages /\ [][NextMessages]_vars

\* ---------------------------------------------------------------- claims
\* ------------------------------------------ the client called directly
MaxWords == 2     \* length of the text of an error of the request

\* Why a request fails, and the words its error text is made of.
Causes == {"transport", "auth", "rate_limit", "invalid_model", "other"}
Words == {"Model", "not", "found", "limit"}
Failures == {[cause |-> c, text |-> t] : c \in Causes, t \in SeqsUpTo(Words, MaxWords)}
Answers == {[cause |-> None, text |-> <<>>]}

\* Arguments of chat and stream_chat: omitted, or a value of the type.
ModelArgs == {PyNone, PyStr(""), PyStr("m1"), PyStr("m2")}
TemperatureArgs == {PyNone, PyFloat(0), PyFloat(3), PyFloat(20)}

ClientCalls ==
    {[op |-> o, model |-> m, temperature |-> t, default_model |-> d, service |-> x] :
         o \in {"chat", "stream_chat"}, m \in ModelArgs, t \in TemperatureArgs,
         d \in Models, x \in Failures \cup Answers}
    \cup {[op |-> o, default_model |-> d, service |-> x] :
              o \in {"get_ai_response", "stream_ai_response"},
              d \in Models, x \in Failures \cup Answers}

\* A caller is about to call one method of a client or of the ChatManager.
InitClient ==
    /\ InitProgram
    /\ api_call \in ClientCalls
    /\ api_result = Pending

\* OpenRouterClient.chat
OpenRouterClient_chat ==
    /\ api_call.op = "chat"
    /\ api_result = Pending
    /\ api_result' = chat(api_call.model, api_call.temperature,
                          api_call.default_model, api_call.service)
    /\ UNCHANGED api_call
    /\ MessageFrame

\* OpenRouterClient.stream_chat, drained by the caller
OpenRouterClient_stream_chat ==
    /\ api_call.op = "stream_chat"
    /\ api_result = Pending
    /\ api_result' = chat(api_call.model, api_call.temperature,
                          api_call.default_model, api_call.service)
    /\ UNCHANGED api_call
    /\ MessageFrame

\* ChatManager.get_ai_response: client.chat(messages), its exception re-raised.
ChatManager_get_ai_response ==
    /\ api_call.op = "get_ai_response"
    /\ api_result = Pending
    /\ LET r == chat(PyNone, PyNone, api_call.default_model, api_call.service)
       IN api_result' = IF r.raised = None THEN r
                        ELSE [r EXCEPT !.raised = reraise(r.raised)]
    /\ UNCHANGED api_call
    /\ MessageFrame

\* ChatManager.stream_ai_response: client.stream_chat(messages) drained, its
\* exception re-raised.
ChatManager_stream_ai_response ==
    /\ api_call.op = "stream_ai_response"
    /\ api_result = Pending
    /\ LET r == chat(PyNone, PyNone, api_call.default_model, api_call.service)
       IN api_result' = IF r.raised = None THEN r
                        ELSE [r EXCEPT !.raised = reraise(r.raised)]
    /\ UNCHANGED api_call
    /\ MessageFrame

NextClient ==
    \/ OpenRouterClient_chat
    \/ OpenRouterClient_stream_chat
    \/ ChatManager_get_ai_response
    \/ ChatManager_stream_ai_response

ClientSpec == InitClient /\ [][NextClient]_vars

\* ------------------------------------------- one session, two rooms
\* A new session over a store that holds two rooms: r1 with its system prompt,
\* r2 with three exchanges.  The session opens the rooms in turn, changes the
\* settings in the sidebar and submits a message.
TwoRooms == {"r1", "r2"}
\* Positions of the slider "Context Window (message pairs)", 3 to 50.
SliderValues == {3, 10}

InitSettings ==
    /\ chat_rooms = {[room_id |-> r, room_name |-> <<"a">>, created_at |-> 0] :
                         r \in TwoRooms}
    /\ messages = <<Row(1, "r1", SYSTEM, <<"a">>, SYSTEM, 1),
                    Row(2, "r2", HUMAN, <<"a">>, HUMAN, 2),
                    Row(3, "r2", AI, <<"b">>, "m1", 3),
                    Row(4, "r2", HUMAN, <<"b">>, HUMAN, 4),
                    Row(5, "r2", AI, <<"a">>, "m1", 5),
                    Row(6, "r2", HUMAN, <<"a">>, HUMAN, 6),
                    Row(7, "r2", AI, <<"b">>, "m1", 7)>>
    /\ seq = 7
    /\ usedIds = TwoRooms
    /\ clock = 7
    /\ txn = NoTxn
    /\ active_room = None
    /\ chat_model = None
    /\ room_model = [r \in TwoRooms |-> None]
    /\ history_token = history_token_initial
    /\ pc = "Idle"
    /\ user_message = <<>>
    /\ final_messages = <<>>
    /\ accumulated = <<>>
    /\ full_response = <<>>
    /\ calls = <<>>
    /\ appended = <<>>
    /\ outcome = "none"
    /\ turns = 0
    /\ pc2 = "idle"
    /\ del_room = None
    /\ del_result = None
    /\ api_call = [op |-> None]
    /\ api_result = [raised |-> None, value |-> None]

\* ChatroomPageComponent._render_history_settings when the slider was moved,
\* then the rest of render(); ok as in _initialize_room_model.
render_history_settings(new_limit, ok) ==
    /\ pc = "Idle"
    /\ active_room # None
    /\ RoomExists(active_room)
    /\ new_limit # history_token
    /\ history_token' = new_limit
    /\ LET im == initialize_room_model(chat_model, room_model, active_room, ok)
       IN /\ chat_model' = im.chat_model
          /\ room_model' = im.room_model
    /\ NewRun
    /\ UNCHANGED <<dbVars, active_room, delVars, apiVars>>

NextSettings ==
    \/ \E r \in TwoRooms, ok \in BOOLEAN : enter_chatroom(r, ok)
    \/ go_to_homepage
    \/ \E m \in Models, ok \in BOOLEAN : change_room_model(m, ok)
    \/ \E v \in SliderValues, ok \in BOOLEAN : render_history_settings(v, ok)
    \/ \E text \in UserTexts, ok \in BOOLEAN : process_user_input(text, ok)
    \/ stream_chat_request

SettingsSpec == InitSettings /\ [][NextSettings]_vars

AssistantRows == {i \in 1..Len(appended) : appended[i].role = AI}
HumanRows == {i \in 1..Len(appended) : appended[i].role = HUMAN}
Terminal == {"AssistantMessagePersisted", "Failed"}
InTurn == {"ContextBuilt", "ModelInvoked", "Fallback", "SaveUser", "SaveAI"}

\* C1: when the streaming call and the fallback of a turn both raise
\* APIConnectionError, the turn has appended exactly one message, the human
\* message carrying the trimmed text, and no assistant message.
C1_FailedTurnKeepsHumanMessage ==
    (/\ pc = "Failed"
     /\ Len(calls) = 2
     /\ \A k \in 1..2 : calls[k].status = "failed" /\ calls[k].error = APIConnectionError)
    => /\ Len(appended) = 1
       /\ appended[1].role = HUMAN
       /\ appended[1].content = Strip(user_message)
       /\ appended[1].room_id = active_room

\* C2: no remote call of a turn is issued before the human message of the turn
\* is in the store.
C2_HumanPersistedBeforeRemoteCall ==
    calls # <<>> => HumanRows # {}

\* C3: an assistant message a turn appends carries the (trimmed) full text of
\* the turn's last remote call, which ran to completion; the text accumulated
\* from a stream that was cancelled or failed is never appended.
C3_NoPartialAssistantMessage ==
    /\ \A i \in AssistantRows :
          /\ calls # <<>>
          /\ calls[Len(calls)].status = "completed"
          /\ appended[i].content = Strip(calls[Len(calls)].text)
    /\ (outcome = "cancelled" => AssistantRows = {})

\* A stream failed after fragments had arrived, the fallback completed and the
\* assistant message holds the fallback's text, not the fragments.
C3_Witness ==
    /\ pc = "AssistantMessagePersisted"
    /\ Len(calls) = 2
    /\ calls[1].status = "failed"
    /\ calls[1].text = <<"a", "a">>
    /\ \E i \in AssistantRows : appended[i].content = <<"a">>

\* C4: a turn issues at most one streaming and at most one non-streaming call;
\* the non-streaming call follows a failed streaming call of the turn and gets
\* the same context; when both fail the turn is Failed with no assistant
\* message.
C4_SingleFallback ==
    /\ Len(calls) <= 2
    /\ (Len(calls) >= 1 => calls[1].kind = "stream")
    /\ (Len(calls) = 2 =>
          /\ calls[2].kind = "chat"
          /\ calls[1].status = "failed"
          /\ calls[2].messages = calls[1].messages
          /\ (calls[2].status = "failed" => pc = "Failed" /\ AssistantRows = {}))

C4_Witness ==
    /\ pc = "Failed"
    /\ Len(calls) = 2
    /\ calls[2].status = "failed"
    /\ calls[2].messages # <<>>

\* C5: a blank text is rejected as InvalidArgument and a turn without a
\* configured model as PreconditionFailed; a rejected turn appends nothing and
\* calls nothing, and no turn runs with a blank text or without a model.
C5_RejectedTurnTouchesNothing ==
    /\ (outcome = "InvalidArgument" =>
          IsBlank(user_message) /\ pc = "Idle" /\ calls = <<>> /\ appended = <<>>)
    /\ (outcome = "PreconditionFailed" =>
          /\ ~IsBlank(user_message)
          /\ chat_model = None
          /\ pc = "Idle" /\ calls = <<>> /\ appended = <<>>)
    /\ (pc # "Idle" => ~IsBlank(user_message) /\ chat_model # None)

C5_Witness ==
    /\ outcome = "PreconditionFailed"
    /\ messages # <<>>

\* C6: the model_tag of the assistant message a turn appends is the model
\* name passed to the remote call that produced its text.
C6_TagIsResolvedModel ==
    \A i \in AssistantRows :
        /\ calls # <<>>
        /\ calls[Len(calls)].status = "completed"
        /\ appended[i].llm = calls[Len(calls)].model

\* The room's stored model and the client's model differ (a model change
\* whose client could not be created) and a turn has persisted its answer.
C6_Witness ==
    /\ pc = "AssistantMessagePersisted"
    /\ active_room # None
    /\ room_model[active_room] # chat_model
    /\ AssistantRows # {}

\* C7: every accepted turn reaches AssistantMessagePersisted, with exactly one
\* assistant message appended, or Failed, with none; it never moves from one
\* terminal state to the other.
C7_TurnTerminates ==
    /\ (pc \in InTurn) ~> (pc \in Terminal)
    /\ [](pc = "AssistantMessagePersisted" => Cardinality(AssistantRows) = 1)
    /\ [](pc = "Failed" => AssistantRows = {})
    /\ [][(pc \in Terminal) => (pc' \in {pc, "Idle"})]_vars

\* A turn that failed after its human message was stored.
C7_Witness ==
    /\ pc = "Failed"
    /\ outcome = "failed"
    /\ Len(appended) = 1

\* The messages of a room in the order of their insertion.
RECURSIVE InAppendOrder(_, _)
InAppendOrder(msgs, room_id) ==
    IF msgs = <<>> THEN <<>>
    ELSE (IF Head(msgs).room_id = room_id THEN <<Tuple4(Head(msgs))>> ELSE <<>>)
         \o InAppendOrder(Tail(msgs), room_id)

\* C8: getMessages returns the messages of a room in the order in which they
\* were appended, also when timestamps are equal.
C8_ReadInAppendOrder ==
    \A r \in RoomIds :
        get_messages_by_room(messages, r) = {InAppendOrder(messages, r)}

\* C9: when deleteRoom(R) returns true, R has no messages, its count is 0 and
\* getRoom(R) finds nothing, all in the state the call returns in.
C9_DeleteLeavesNothing ==
    [][(pc2 = "commit" /\ pc2' = "idle") =>
          /\ del_result' = "True"
          /\ get_messages_by_room(messages', del_room) = {<<>>}
          /\ count_messages_by_room(messages', del_room) = 0
          /\ get_chat_room(chat_rooms', del_room) = None]_vars

\* The room held two messages or more and the deletion has returned true.
C9_Witness ==
    /\ del_result = "True"
    /\ seq >= 2
    /\ messages = <<>>
    /\ chat_rooms = {}

\* C10: every step of delete_chat_room leaves the committed tables, which are
\* what other connections read, as they were, or removes the room row and all
\* messages of the room at once; the room row never goes while messages stay.
C10_DeleteVisibleAtOnce ==
    [][/\ (pc2 # "idle" /\ pc2' # pc2) =>
             \/ <<chat_rooms, messages>>' = <<chat_rooms, messages>>
             \/ /\ \A x \in chat_rooms' : x.room_id # del_room
                /\ RowsOf(messages', del_room) = {}
       /\ \A r \in RoomIds :
             (RoomExists(r) /\ \A x \in chat_rooms' : x.room_id # r)
                 => RowsOf(messages', r) = {}]_vars

\* The deleting connection has removed the messages in its transaction while
\* readers still see the room with all of them.
C10_Witness ==
    /\ pc2 = "delete_room"
    /\ txn # NoTxn
    /\ txn[1].messages = <<>>
    /\ Len(messages) >= 2
    /\ RoomExists(del_room)

\* C11: every insert into messages names a room that exists when the row is
\* inserted, in every interleaving of a turn with a deletion by another
\* session; no message of R is inserted after deleteRoom(R) returned true.
C11_InsertNamesExistingRoom ==
    [][seq' = seq + 1 =>
          \E r \in chat_rooms' : r.room_id = messages'[Len(messages')].room_id]_vars

NonSystemRows(msgs, room_id) == {m \in RowsOf(msgs, room_id) : m.role \in {HUMAN, AI}}
SystemRows(msgs, room_id) == {m \in RowsOf(msgs, room_id) : m.role = SYSTEM}

\* C12: clear_room_chat_history on room R removes exactly the human and
\* assistant messages of R, returns their number, and getMessages(R) then
\* yields the system messages of R in the order it yielded them before.
C12_ClearChatHistoryKeepsSystem ==
    [][(api_call'.op = "clear_room_chat_history" /\ api_result'.raised = None) =>
          LET R == Strip(api_call'.room_id)
              removed == NonSystemRows(messages, R)
          IN /\ messages' = SelectSeq(messages, LAMBDA m : m \notin removed)
             /\ api_result'.value = Cardinality(removed)
             /\ get_messages_by_room(messages', R) =
                    {SelectSeq(o, LAMBDA x : x.role = SYSTEM) :
                         o \in get_messages_by_room(messages, R)}]_vars

\* The call removed one message and the system message of the room is left.
C12_Witness ==
    /\ api_call.op = "clear_room_chat_history"
    /\ api_result.raised = None
    /\ api_result.value = 1
    /\ SystemRows(messages, Strip(api_call.room_id)) # {}

\* C13: delete_chat_room with an id that matches no room returns False and
\* leaves the rooms and the messages of every room as they were.
C13_DeleteMissingRoomChangesNothing ==
    [][(/\ api_call'.op = "delete_chat_room"
        /\ ~IsBlank(api_call'.room_id)
        /\ ~RoomExists(Strip(api_call'.room_id))) =>
          /\ api_result'.raised = None
          /\ api_result'.value = FALSE
          /\ chat_rooms' = chat_rooms
          /\ messages' = messages]_vars

\* The call returned False on a store that holds a room and messages, among
\* them a message left under the id of a room deleted earlier.
C13_Witness ==
    /\ api_call.op = "delete_chat_room"
    /\ api_result.raised = None
    /\ api_result.value = FALSE
    /\ chat_rooms # {}
    /\ RowsOf(messages, Strip(api_call.room_id)) # {}

\* The call c was made with a blank argument.
BlankCall(c) ==
    \/ c.op = "create_chat_room" /\ IsBlank(c.room_name)
    \/ c.op \in {"add_user_message", "add_ai_message"} /\ IsBlank(c.content)
    \/ /\ c.op \in {"delete_chat_room", "clear_room_messages", "clear_room_chat_history"}
       /\ IsBlank(c.room_id)

\* C14: a mutation called with a blank room name, blank content or blank room
\* id raises ValueError to its caller and leaves rooms and messages unchanged.
C14_BlankArgumentRejected ==
    [][BlankCall(api_call') =>
          /\ api_result'.raised = ValueError
          /\ chat_rooms' = chat_rooms
          /\ messages' = messages]_vars

\* A blank answer was refused on a store that holds a room and a message.
C14_Witness ==
    /\ api_call.op = "add_ai_message"
    /\ IsBlank(api_call.content)
    /\ api_result.raised = ValueError
    /\ chat_rooms # {}
    /\ messages # <<>>

\* C15: every stored message has a role among human, assistant and system, a
\* non-empty content without leading or trailing whitespace, and for a human
\* or system message a model tag equal to the role.
C15_StoredMessageWellFormed ==
    \A i \in 1..Len(messages) :
        LET m == messages[i]
        IN /\ m.role \in {HUMAN, AI, SYSTEM}
           /\ m.content # <<>>
           /\ m.content[1] \notin Whitespace
           /\ m.content[Len(m.content)] \notin Whitespace
           /\ (m.role \in {HUMAN, SYSTEM} => m.llm = m.role)

\* A room holds its system prompt and the two messages of a turn, each
\* typed with surrounding blanks.
C15_Witness ==
    /\ Len(messages) = 3
    /\ {messages[i].role : i \in 1..3} = {HUMAN, AI, SYSTEM}
    /\ user_message = <<" ", "a">>
    /\ full_response = <<"a", " ">>

\* C16: a room holds at most one system message; create_chat_room leaves the
\* new room with the trimmed prompt as its only message (none for a blank
\* prompt); no later call adds or alters a system message, and
\* clear_room_chat_history removes none.
C16_SingleSystemMessage ==
    [][/\ \A r \in StoreRoomIds : Cardinality(SystemRows(messages', r)) <= 1
       /\ (api_call'.op = "create_chat_room" /\ api_result'.raised = None) =>
             LET rows == RowsOf(messages', api_result'.value)
             IN /\ Cardinality(rows) = IF IsBlank(api_call'.system_prompt) THEN 0 ELSE 1
                /\ \A m \in rows : /\ m.role = SYSTEM
                                   /\ m.content = Strip(api_call'.system_prompt)
       /\ api_call'.op # "create_chat_room" =>
             \A r \in StoreRoomIds : SystemRows(messages', r) \subseteq SystemRows(messages, r)
       /\ api_call'.op = "clear_room_chat_history" =>
             \A r \in StoreRoomIds : SystemRows(messages', r) = SystemRows(messages, r)]_vars

\* A room's chat history was cleared and its system prompt is all it holds.
C16_Witness ==
    /\ api_call.op = "clear_room_chat_history"
    /\ api_result.raised = None
    /\ seq = 2
    /\ Len(messages) = 1
    /\ messages[1].role = SYSTEM
    /\ messages[1].content = <<"a">>
    /\ RoomExists(messages[1].room_id)

\* The part of sequence c at the indices in I, in order.
SubSeqAt(c, I) ==
    LET F[i \in 0..Len(c)] ==
            IF i = 0 THEN <<>>
            ELSE IF i \in I THEN Append(F[i - 1], c[i]) ELSE F[i - 1]
    IN F[Len(c)]

\* The i-th smallest member of a set of numbers.
Nth(I, j) == CHOOSE i \in I : Cardinality({x \in I : x <= i}) = j

Systems(m) == SelectSeq(m, LAMBDA x : x.role = "system")
Conversation(m) == SelectSeq(m, LAMBDA x : x.role # "system")

\* A pair starts at every user message of the conversation and takes in the
\* assistant message that follows it directly, if there is one.
UserIdx(c) == {i \in 1..Len(c) : c[i].role = "user"}
LatestUsers(c, k) == {i \in UserIdx(c) : Cardinality({j \in UserIdx(c) : j >= i}) <= k}
PairIdx(c, U) ==
    U \cup {i + 1 : i \in {j \in U : j + 1 <= Len(c) /\ c[j + 1].role = "assistant"}}

\* C17: trim_messages(m, max_pairs) with max_pairs > 0 returns all system
\* messages of m followed by the last max_pairs pairs of the conversation,
\* unchanged and in their order, or by every pair when there are no more
\* than max_pairs.
C17_TrimKeepsSystemAndLatestPairs ==
    (api_call.op = "trim_messages" /\ api_result # Pending) =>
        LET m == api_call.messages
            k == api_call.max_history
            out == api_result.value
            c == Conversation(m)
            n == Cardinality(UserIdx(c))
        IN /\ out = Systems(m) \o SubSeqAt(c, PairIdx(c, LatestUsers(c, k)))
           /\ Systems(out) = Systems(m)
           /\ Cardinality(UserIdx(Conversation(out))) = IF n > k THEN k ELSE n

\* Two pairs around a system message, budget 1: the older pair is dropped.
C17_Witness ==
    /\ api_call.op = "trim_messages"
    /\ api_result # Pending
    /\ api_call.max_history = 1
    /\ api_call.messages = <<Wire("user", <<"a">>), Wire("assistant", <<"a">>),
                             Wire("system", <<"a">>), Wire("user", <<"b">>)>>
    /\ api_result.value = <<Wire("system", <<"a">>), Wire("user", <<"b">>)>>

\* C18: trimming the output of trim_messages again with the same budget
\* returns it unchanged.
C18_TrimIdempotent ==
    (api_call.op = "trim_messages" /\ api_result # Pending) =>
        trim_messages(api_result.value, api_call.max_history) = api_result.value

\* Three pairs under budget 1: the first call cut two of them.
C18_Witness ==
    /\ api_call.op = "trim_messages"
    /\ api_result # Pending
    /\ api_call.max_history = 1
    /\ Cardinality(UserIdx(api_call.messages)) = 3
    /\ Len(api_result.value) = 2

\* The entry passes validate_message_format and has a character that is not
\* whitespace.
Acceptable(m) ==
    /\ "py_type" \notin DOMAIN m
    /\ "role" \in DOMAIN m
    /\ "content" \in DOMAIN m
    /\ m.role \in {"system", "user", "assistant"}
    /\ \A i \in 1..Len(m.content) : m.content[i] \in Characters
    /\ \E i \in 1..Len(m.content) : m.content[i] \notin Whitespace

\* C19: every message sanitize_messages returns has a valid role and a
\* non-empty content without leading or trailing whitespace; the output lists
\* the acceptable entries of the input, trimmed, in input order, repeated as
\* often as they occur.
C19_SanitizeOutputValid ==
    (api_call.op = "sanitize_messages" /\ api_result # Pending) =>
        LET inp == api_call.messages
            out == api_result.value
            I == {i \in 1..Len(inp) : Acceptable(inp[i])}
        IN /\ \A j \in 1..Len(out) :
                 /\ out[j].role \in {"system", "user", "assistant"}
                 /\ out[j].content # <<>>
                 /\ out[j].content[1] \notin Whitespace
                 /\ out[j].content[Len(out[j].content)] \notin Whitespace
           /\ Len(out) = Cardinality(I)
           /\ \A j \in 1..Len(out) :
                 /\ out[j].role = inp[Nth(I, j)].role
                 /\ out[j].content = Strip(inp[Nth(I, j)].content)

\* An entry that is no dict and one with a foreign role are dropped, the two
\* equal messages around them are both kept.
C19_Witness ==
    /\ api_call.op = "sanitize_messages"
    /\ api_result # Pending
    /\ Len(api_call.messages) = 4
    /\ "py_type" \in DOMAIN api_call.messages[2]
    /\ api_call.messages[3] = Wire("tool", <<"a">>)
    /\ api_result.value = <<Wire("user", <<"a">>), Wire("user", <<"a">>)>>

\* C20: sanitizing the output of sanitize_messages again returns it unchanged.
C20_SanitizeIdempotent ==
    (api_call.op = "sanitize_messages" /\ api_result # Pending) =>
        sanitize_messages(api_result.value) = api_result.value

\* The first call trimmed a content, dropped a key and dropped a blank message.
C20_Witness ==
    /\ api_call.op = "sanitize_messages"
    /\ api_result # Pending
    /\ Len(api_call.messages) = 2
    /\ "name" \in DOMAIN api_call.messages[1]
    /\ api_call.messages[2] = Wire("system", <<" ">>)
    /\ api_result.value = <<Wire("system", <<"a">>)>>

\* ---------------------------------------------------------------- C21
\* The stored messages a conversion keeps: those whose content holds a
\* character that is no whitespace.
KeptIdx(m) ==
    {i \in 1..Len(m) : \E j \in 1..Len(m[i].content) : m[i].content[j] \notin Whitespace}

\* The wire role of a stored role, as the role table reads.
WireRoleOf(r) ==
    IF r = "human" THEN "user"
    ELSE IF r = "assistant" THEN "assistant"
    ELSE IF r = "system" THEN "system"
    ELSE "user"

\* C21: db_messages_to_openai_format drops every stored message whose content
\* is empty or only whitespace and maps the others, in their order, to wire
\* messages: human to user, assistant to assistant, system to system, any other
\* role to user.  No wire message it returns has a role outside user, assistant
\* and system, or a blank content.
C21_WireFormat ==
    (api_call.op = "db_messages_to_openai_format" /\ api_result # Pending) =>
        LET m == api_call.db_messages
            out == api_result.value
            I == KeptIdx(m)
        IN /\ Len(out) = Cardinality(I)
           /\ \A j \in 1..Len(out) :
                  /\ out[j].role = WireRoleOf(m[Nth(I, j)].role)
                  /\ out[j].content = Strip(m[Nth(I, j)].content)
                  /\ out[j].role \in {"user", "assistant", "system"}
                  /\ ~IsBlank(out[j].content)

\* A list with a blank message, a message of an unknown role and a padded one
\* has been converted.
C21_Witness ==
    /\ api_call.op = "db_messages_to_openai_format"
    /\ api_result # Pending
    /\ \E i, j, k \in 1..Len(api_call.db_messages) :
           /\ api_call.db_messages[i].content = <<" ">>
           /\ api_call.db_messages[j].role = "tool"
           /\ api_call.db_messages[j].content = <<"a">>
           /\ api_call.db_messages[k].content = <<" ", "b", " ">>
    /\ Len(api_result.value) = 2

\* ---------------------------------------------------------------- C22
\* C22: a turn whose history read fails is aborted: a context is built only
\* from a history the store returned, of the room as it is stored, and never
\* from an empty list that stands in for a read that failed.
C22_ContextFromStoredHistory ==
    [][(pc = "Idle" /\ pc' = "ContextBuilt") =>
          \E db_messages \in get_messages_by_room(messages, active_room) :
              final_messages' = prepare_messages_for_ai(db_messages, user_message')]_vars

\* ---------------------------------------------------------------- C23
\* C23: a remote call that fails surfaces as ApiConnectionError or as
\* InvalidModelError and as nothing else; as InvalidModelError only when the
\* service rejected the model name, and as ApiConnectionError for a transport,
\* authentication, rate-limit or unclassified failure, whatever the words of
\* the error text; the ChatManager calls surface the same kind.
C23_ErrorKindFollowsCause ==
    (/\ api_call.op \in {"chat", "stream_chat", "get_ai_response", "stream_ai_response"}
     /\ api_result # Pending
     /\ api_call.service.cause # None) =>
        /\ api_result.raised \in ApiErrors
        /\ api_result.raised = InvalidModelError => api_call.service.cause = "invalid_model"
        /\ api_call.service.cause \in {"transport", "auth", "rate_limit", "other"} =>
               api_result.raised = APIConnectionError

\* ---------------------------------------------------------------- C25
\* C25: the model and the temperature of the request are the caller's
\* arguments whenever the caller passes them, for any model string and any
\* temperature from 0 up, and the client's defaults only when the caller
\* leaves the argument out.
C25_ExplicitArgumentWins ==
    (api_call.op \in {"chat", "stream_chat"} /\ api_result # Pending) =>
        /\ api_result.request.model =
               IF api_call.model = PyNone THEN api_call.default_model
               ELSE api_call.model.value
        /\ api_result.request.temperature =
               IF api_call.temperature = PyNone THEN default_temperature
               ELSE api_call.temperature.value

\* ---------------------------------------------------------------- C24
\* The contexts a turn in room b would build for a text, given the store and
\* the session's budget, and the model its remote call would name, given the
\* session's client and room models.
ContextIn(msgs, max_history, b, text) ==
    {prepare_messages(db_messages, text, max_history) :
         db_messages \in get_messages_by_room(msgs, b)}
ModelUsedIn(cm, rm, b) == initialize_room_model(cm, rm, b, TRUE).chat_model

\* C24: a change of the model or of the history budget made while room a is
\* open leaves the model and the budget that a later turn in any other room b
\* uses as they were: the context and the remote call of a turn in b are the
\* same before and after.
C24_SettingsStayInTheirRoom ==
    [][\A a \in TwoRooms, b \in TwoRooms :
          (a # b /\ active_room = a /\ active_room' = a) =>
              /\ ModelUsedIn(chat_model', room_model', b) =
                     ModelUsedIn(chat_model, room_model, b)
              /\ ContextIn(messages', history_token', b, <<"a">>) =
                     ContextIn(messages, history_token, b, <<"a">>)]_vars

\* ---------------------------------------------------------------- C26
\* C26: the list trim_messages returns starts with all system messages of the
\* input, in input order, and goes on with messages that are no system
\* messages, taken from the input in input order.
C26_SystemMessagesFirst ==
    (api_call.op = "trim_messages" /\ api_result # Pending) =>
        LET m == api_call.messages
            out == api_result.value
            K == Cardinality({i \in 1..Len(m) : m[i].role = "system"})
        IN /\ Len(out) >= K
           /\ SubSeq(out, 1, K) = SubSeqAt(m, {i \in 1..Len(m) : m[i].role = "system"})
           /\ \A i \in (K + 1)..Len(out) : out[i].role # "system"
           /\ \E I \in SUBSET {i \in 1..Len(m) : m[i].role # "system"} :
                  SubSeqAt(m, I) = SubSeq(out, K + 1, Len(out))

\* A list with a system message between two pairs and another at its end has
\* been trimmed to one pair.
C26_Witness ==
    /\ api_call.op = "trim_messages"
    /\ api_result # Pending
    /\ api_call.max_history = 1
    /\ api_call.messages = <<Wire("user", <<"a">>), Wire("system", <<"b">>),
                             Wire("user", <<"b">>), Wire("system", <<"a">>)>>
    /\ api_result.value = <<Wire("system", <<"b">>), Wire("system", <<"a">>),
                            Wire("user", <<"b">>)>>

\* ---------------------------------------------------------------- C27
\* The last k entries of a sequence, or all of them.
Latest(s, k) == IF Len(s) > k THEN [j \in 1..k |-> s[Len(s) - k + j]] ELSE s

\* C27: every user message starts a pair, alone or with the assistant message
\* right after it, and an assistant message elsewhere is dropped.  So in the
\* list trim_messages returns an assistant message always comes directly
\* after a user message, it is the one that followed that user message in the
\* conversation, and the user messages are the latest max_pairs user messages
\* of the input, none missing.
C27_PairsStartAtUserMessages ==
    (api_call.op = "trim_messages" /\ api_result # Pending) =>
        LET out == api_result.value
            c == Conversation(api_call.messages)
            IsUser(x) == x.role = "user"
        IN /\ \A i \in 1..Len(out) :
                  out[i].role = "assistant" => (i > 1 /\ out[i - 1].role = "user")
           /\ SelectSeq(out, IsUser) = Latest(SelectSeq(c, IsUser), api_call.max_history)
           /\ Len(out) - Len(Systems(out)) - Len(SelectSeq(out, IsUser)) =
                  Cardinality({i \in LatestUsers(c, api_call.max_history) :
                                   i < Len(c) /\ c[i + 1].role = "assistant"})

\* An assistant message before any user message, a pair, and a second
\* assistant message after the pair: only the pair is returned.
C27_Witness ==
    /\ api_call.op = "trim_messages"
    /\ api_result # Pending
    /\ api_call.max_history = 2
    /\ api_call.messages = <<Wire("assistant", <<"a">>), Wire("user", <<"a">>),
                             Wire("assistant", <<"b">>), Wire("assistant", <<"a">>)>>
    /\ api_result.value = <<Wire("user", <<"a">>), Wire("assistant", <<"b">>)>>

\* ---------------------------------------------------------------- C28
\* C28: the context of an accepted turn is not empty and ends with the user
\* message of the turn, its text trimmed; what stands before that message
\* comes from the stored history, which holds nothing of this turn yet, so
\* the turn puts its utterance into the context once; the remote call gets
\* this context.
C28_ContextEndsWithThisTurn ==
    (pc \in {"ContextBuilt", "ModelInvoked"}) =>
        LET n == Len(final_messages)
        IN /\ n >= 1
           /\ final_messages[n] = Wire("user", Strip(user_message))
           /\ appended = <<>>
           /\ \E db_messages \in get_messages_by_room(messages, active_room) :
                  LET h == db_messages_to_openai_format(db_messages)
                  IN \E I \in SUBSET (1..Len(h)) :
                         SubSeqAt(h, I) = SubSeq(final_messages, 1, n - 1)
           /\ pc = "ModelInvoked" => calls[Len(calls)].messages = final_messages

\* A turn in the room with three exchanges under a budget of 3 pairs: the
\* remote call got the last two exchanges and the new user message.
C28_Witness ==
    /\ pc = "ModelInvoked"
    /\ active_room = "r2"
    /\ history_token = 3
    /\ Len(calls) = 1
    /\ Len(calls[1].messages) = 5
    /\ calls[1].messages[5] = Wire("user", <<"a">>)

\* ---------------------------------------------------------------- C29
\* C29: between turns, whatever the turns so far did, the messages of a room
\* that are no system messages, in the order get_messages_by_room returns
\* them, are groups of a human message and at most one assistant message
\* after it: an assistant message always comes directly after a human message.
C29_StoredPairsWellFormed ==
    (pc \in {"Idle", "AssistantMessagePersisted", "Failed"}) =>
        \A r \in RoomIds :
            \A read \in get_messages_by_room(messages, r) :
                LET c == SelectSeq(read, LAMBDA x : x.role # SYSTEM)
                IN \A i \in 1..Len(c) :
                       c[i].role = AI => (i > 1 /\ c[i - 1].role = HUMAN)

\* ---------------------------------------------------------------- C30
\* The text has no character other than whitespace.
OnlyWhitespace(text) == \A i \in 1..Len(text) : text[i] \in Whitespace

\* C30: when the remote call ran to completion and its full text is empty or
\* only whitespace, the turn ends as a failure with its human message
\* appended and no assistant message; no assistant message in the store, and
\* none a turn appended, is blank.
C30_BlankAnswerFailsTheTurn ==
    /\ \A i \in 1..Len(messages) :
          messages[i].role = AI => ~OnlyWhitespace(messages[i].content)
    /\ \A i \in AssistantRows : ~OnlyWhitespace(appended[i].content)
    /\ (/\ pc \in {"AssistantMessagePersisted", "Failed"}
        /\ calls # <<>>
        /\ calls[Len(calls)].status = "completed"
        /\ OnlyWhitespace(calls[Len(calls)].text)) =>
           /\ pc = "Failed"
           /\ outcome = "failed"
           /\ Len(appended) = 1
           /\ appended[1].role = HUMAN
           /\ appended[1].content = Strip(user_message)

\* A stream that delivered one fragment of whitespace and completed: the turn
\* failed and appended its human message only.
C30_Witness ==
    /\ pc = "Failed"
    /\ Len(calls) = 1
    /\ calls[1].status = "completed"
    /\ calls[1].text = <<" ">>
    /\ Len(appended) = 1
    /\ appended[1].role = HUMAN

====
